---- MODULE Spec2Model ----
(***************************************************************************)
(* Model of the decision pipeline of SicilyChessBot: orientation inference *)
(* (detect_board_orientation, flip_fen), the FEN repair cascade and the    *)
(* engine query/retry ladder of test_move_generation in sicily.py, and the *)
(* older copy of the pipeline in test.py.                                  *)
(*                                                                         *)
(* A Python str is a sequence of one-character strings.  An Optional[int]  *)
(* is a record [kind, n] (see PyInt, PyNone, PyStr).                       *)
(***************************************************************************)
EXTENDS Integers, Sequences, FiniteSets, TLC

VARIABLES
    pc,             \* position in test_move_generation
    manual_side,    \* argument manual_side: "w", "b" or "none" (None)
    input_fen,      \* shortenFEN(fen) of the predicted board, sicily.py:286
    fen,            \* local fen: None, the raw prediction or the sample position
    short_fen,      \* local short_fen
    orientation,    \* local orientation
    active_player,  \* local active_player
    full_fen,       \* local full_fen
    stockfish,      \* local stockfish: 0 = None, 1 = first session, 2 = restarted session
    position,       \* per session: the last position a completed set_fen_position assigned
    calls,          \* the engine calls issued so far, in order
    detect_calls,   \* number of calls of detect_board_orientation
    top_moves,      \* local top_moves
    evaluation,     \* local evaluation
    display_evaluation, \* local display_evaluation (printed)
    shown,          \* the centipawn values printed for the top moves, in order
    best_move,      \* local best_move
    result,         \* the returned tuple (read when pc = "done")
    stockfish_params, \* argument stockfish_params: NoParams (None) or a dict
    config,         \* per session: the skill level and depth it was given
    rot,            \* flip_fen applied rot_n times to input_fen
    rot_n,
    corners,        \* argument corners of the annotation functions: <<x0, y0, x1, y1>>
    square,         \* argument square of the last call of square_to_coordinates
    coords,         \* what that call returned
    move,           \* argument move of the call of draw_move_on_image
    drawn           \* what that call returned

vars == <<pc, manual_side, input_fen, fen, short_fen, orientation, active_player,
          full_fen, stockfish, position, calls, detect_calls, top_moves, evaluation,
          display_evaluation, shown, best_move, result, stockfish_params, config,
          rot, rot_n, corners, square, coords, move, drawn>>

-----------------------------------------------------------------------------
(* Bounds of the model *)

\* longest rank-string of an enumerated placement
MaxRankLen == 2
\* number of rank-strings between the first and the last one
MidRanks == 6
\* applications of flip_fen to one placement
MaxFlips == 2

-----------------------------------------------------------------------------
(* Python values *)

PyNone == [kind |-> "None", n |-> 0]
PyInt(v) == [kind |-> "int", n |-> v]
PyStr == [kind |-> "str", n |-> 0]

\* str.isupper() and str.isalpha() on one character, sicily.py:123
UpperLetters == {"A","B","C","D","E","F","G","H","I","J","K","L","M",
                 "N","O","P","Q","R","S","T","U","V","W","X","Y","Z"}
\* str.islower() and str.isalpha() on one character, sicily.py:124
LowerLetters == {"a","b","c","d","e","f","g","h","i","j","k","l","m",
                 "n","o","p","q","r","s","t","u","v","w","x","y","z"}

\* s[::-1]
Reversed(s) == [i \in 1..Len(s) |-> s[Len(s) + 1 - i]]

\* str.split('/'): one piece more than there are separators, pieces may be empty
Split(s) ==
    LET seps == { i \in 1..Len(s) : s[i] = "/" }
        n == Cardinality(seps)
        \* position of the k-th separator; 0 and Len(s) + 1 close the string
        SepPos(k) == IF k = 0 THEN 0
                     ELSE IF k = n + 1 THEN Len(s) + 1
                     ELSE CHOOSE i \in seps : Cardinality({ j \in seps : j <= i }) = k
    IN  [k \in 1..(n + 1) |-> SubSeq(s, SepPos(k - 1) + 1, SepPos(k) - 1)]

\* '/'.join(ranks)
RECURSIVE Join(_)
Join(ranks) ==
    IF ranks = <<>> THEN <<>>
    ELSE IF Len(ranks) = 1 THEN Head(ranks)
    ELSE Head(ranks) \o <<"/">> \o Join(Tail(ranks))

\* sum(1 for c in s if c in letters)
Count(s, letters) == Cardinality({ i \in 1..Len(s) : s[i] \in letters })

\* 'c' in s
Contains(s, c) == \E i \in 1..Len(s) : s[i] = c

-----------------------------------------------------------------------------
(* Orientation inference *)

\* detect_board_orientation deciding on the first rank-string instead of the last
detect_board_orientation_TopRank(f) ==
    LET ranks == Split(f)
        top_rank == ranks[1]
        top_white == Count(top_rank, UpperLetters)
        top_black == Count(top_rank, LowerLetters)
    IN  IF top_white > top_black THEN <<"normal", "w">>
        ELSE IF top_black > top_white THEN <<"flipped", "b">>
        ELSE IF Contains(top_rank, "r") \/ Contains(top_rank, "k")
                \/ Contains(top_rank, "q")
             THEN <<"flipped", "b">>
             ELSE <<"normal", "w">>

\* detect_board_orientation looking for a rook or a king only when the counts tie
detect_board_orientation_NoQueen(f) ==
    LET ranks == Split(f)
        bottom_rank == ranks[Len(ranks)]
        bottom_white == Count(bottom_rank, UpperLetters)
        bottom_black == Count(bottom_rank, LowerLetters)
    IN  IF bottom_white > bottom_black THEN <<"normal", "w">>
        ELSE IF bottom_black > bottom_white THEN <<"flipped", "b">>
        ELSE IF Contains(bottom_rank, "r") \/ Contains(bottom_rank, "k")
             THEN <<"flipped", "b">>
             ELSE <<"normal", "w">>

\* detect_board_orientation: <<orientation, active_player>>.  The except branch
\* cannot be taken for a str argument: split returns at least one piece.
detect_board_orientation(f) ==
    LET ranks == Split(f)
        bottom_rank == ranks[Len(ranks)]
        bottom_white == Count(bottom_rank, UpperLetters)
        bottom_black == Count(bottom_rank, LowerLetters)
    IN  IF bottom_white > bottom_black THEN <<"normal", "w">>
        ELSE IF bottom_black > bottom_white THEN <<"flipped", "b">>
        ELSE IF Contains(bottom_rank, "r") \/ Contains(bottom_rank, "k")
                \/ Contains(bottom_rank, "q")
             THEN <<"flipped", "b">>
             ELSE <<"normal", "w">>

\* for rank in reversed(ranks): flipped_ranks.append(rank[::-1])
FlipRanks(ranks) == [i \in 1..Len(ranks) |-> Reversed(ranks[Len(ranks) + 1 - i])]

\* ''.join(ranks)
RECURSIVE Concat(_)
Concat(ranks) ==
    IF ranks = <<>> THEN <<>> ELSE Head(ranks) \o Concat(Tail(ranks))

\* flip_fen joining the flipped ranks with '' instead of '/'
flip_fen_NoSeparator(f) == Concat(FlipRanks(Split(f)))

flip_fen(f) == Join(FlipRanks(Split(f)))

-----------------------------------------------------------------------------
(* Inputs *)

\* characters of the enumerated rank-strings: a white piece, a black major
\* piece, a black pawn and a run of empty squares
RankAlphabet == {"R", "k", "p", "8"}

RECURSIVE StringsOfLen(_)
StringsOfLen(n) ==
    IF n = 0 THEN { <<>> }
    ELSE { <<c>> \o s : c \in RankAlphabet, s \in StringsOfLen(n - 1) }

\* the non-empty rank-strings of at most MaxRankLen characters
RankStrings == UNION { StringsOfLen(n) : n \in 1..MaxRankLen }

MidRankChoices == { <<"8">>, <<"p", "R">> }

\* a placement: first rank-string, MidRanks copies of mid, last rank-string
Placement(top, mid, bot) ==
    Join(<<top>> \o [i \in 1..MidRanks |-> mid] \o <<bot>>)

\* every enumerated placement
Placements ==
    { Placement(top, mid, bot) : top \in RankStrings, mid \in MidRankChoices,
                                 bot \in RankStrings }

\* placements whose last rank-string holds as many white as black pieces, with
\* and without a black rook or queen, under a white and under a black first rank
TiePlacements ==
    { Placement(top, <<"8">>, bot) :
        top \in { <<"R">>, <<"k", "p">> },
        bot \in { <<"R", "q">>, <<"Q", "r">>, <<"r", "R">>, <<"Q", "p">>,
                  <<"B", "n">>, <<"K", "b">> } }

\* the placements the whole pipeline is run on: white on the last rank, black
\* on the last rank, a tie without and a tie with a black major piece
PipelinePlacements ==
    { Placement(<<"k", "p">>, <<"8">>, bot) :
        bot \in { <<"R", "8">>, <<"k", "p">>, <<"8">>, <<"R", "k">> } }

ManualSides == {"none", "w", "b"}

NoParams == [skill_level |-> -1, elo |-> -1, depth |-> -1]
\* choice "2" of get_stockfish_parameters with a depth of 12
SomeParams == [skill_level |-> 3, elo |-> 1200, depth |-> 12]

DefaultSkillLevel == 10
DefaultDepth == 6

-----------------------------------------------------------------------------
(* Values of the pipeline *)

\* Python None in a str slot
NoneFen == <<"None">>
\* the raw prediction of the tile classifier, before shortenFEN
PredictedFen == <<"fen">>
NoMove == "None"

sample_fen ==
    <<"r","n","b","q","k","b","n","r","/","p","p","p","p","p","p","p","p","/",
      "8","/","8","/","4","P","3","/","8","/",
      "P","P","P","P","1","P","P","P","/","R","N","B","Q","K","B","N","R">>

\* the position of the liveness probe, sicily.py:368
ProbeFen ==
    <<"r","n","b","q","k","b","n","r","/","p","p","p","p","p","p","p","p","/",
      "8","/","8","/","8","/","8","/",
      "P","P","P","P","P","P","P","P","/","R","N","B","Q","K","B","N","R",
      " ","w"," ","K","Q","k","q"," ","-"," ","0"," ","1">>

\* f"{short_fen} {active_player} KQkq - 0 1"
FullRightsFen(placement, player) ==
    placement \o <<" ", player, " ", "K", "Q", "k", "q", " ", "-", " ", "0", " ", "1">>

\* f"{short_fen} {active_player} - - 0 1"
NoRightsFen(placement, player) ==
    placement \o <<" ", player, " ", "-", " ", "-", " ", "0", " ", "1">>

Opposite(player) == IF player = "w" THEN "b" ELSE "w"

\* a fresh engine holds the standard starting position
StartPos == <<"startpos">>
NoConfig == [skill_level |-> -1, depth |-> -1]

Moves == <<"e2e4", "d2d4", "g1f3">>

\* the (Centipawn, Mate) pairs an entry of get_top_moves carries
ScorePairs ==
    { <<PyInt(35), PyNone>>, <<PyInt(-120), PyNone>>, <<PyNone, PyInt(3)>> }

TopN == 3

\* the lists get_top_moves(3) may return: at most 3 entries
TopMoveLists ==
    UNION { { [i \in 1..n |-> [Move |-> Moves[i], Centipawn |-> sc[i][1], Mate |-> sc[i][2]]] :
                sc \in [1..n -> ScorePairs] } : n \in 0..TopN }

\* the dicts get_evaluation may return
Evaluations ==
    { [type |-> t, value |-> v] :
        t \in {"cp", "mate"}, v \in {PyInt(-120), PyInt(0), PyInt(35), PyNone} }

UnknownEvaluation == [type |-> "unknown", value |-> PyStr]

Failure(f) == [fen |-> f, best_move |-> NoMove, success |-> FALSE]
Success(f, m) == [fen |-> f, best_move |-> m, success |-> TRUE]

Call(op, on, arg, out) == [op |-> op, on |-> on, arg |-> arg, out |-> out]

-----------------------------------------------------------------------------
(* State before test_move_generation runs *)

\* what a call of square_to_coordinates gives: None, a tuple, or a raised ValueError
NoCoords == [kind |-> "unset", x |-> 0, y |-> 0]
NoneCoords == [kind |-> "None", x |-> 0, y |-> 0]
RaisedCoords == [kind |-> "raise", x |-> 0, y |-> 0]
Coords(x, y) == [kind |-> "tuple", x |-> x, y |-> y]

\* no annotation function has been called
GeometryIdle ==
    /\ corners = <<0, 0, 0, 0>>
    /\ square = <<>>
    /\ coords = NoCoords
    /\ move = <<>>
    /\ drawn = "unset"

InitPipelineLocals ==
    /\ fen = NoneFen
    /\ short_fen = NoneFen
    /\ orientation = "unset"
    /\ active_player = "unset"
    /\ full_fen = NoneFen
    /\ stockfish = 0
    /\ position = [s \in {1, 2} |-> NoneFen]
    /\ config = [s \in {1, 2} |-> NoConfig]
    /\ calls = <<>>
    /\ detect_calls = 0
    /\ top_moves = <<>>
    /\ evaluation = UnknownEvaluation
    /\ display_evaluation = UnknownEvaluation
    /\ shown = <<>>
    /\ best_move = NoMove
    /\ result = Failure(NoneFen)
    /\ rot = input_fen
    /\ rot_n = 0

InitLocals == InitPipelineLocals /\ GeometryIdle

Init ==
    /\ pc = "init"
    /\ manual_side \in ManualSides
    /\ input_fen \in PipelinePlacements
    /\ stockfish_params \in {NoParams, SomeParams}
    /\ InitLocals

-----------------------------------------------------------------------------
(* sicily.py: test_move_generation *)

engine == <<stockfish, position, config, calls>>
locals == <<fen, short_fen, orientation, active_player, full_fen, detect_calls>>
inputs == <<manual_side, input_fen, stockfish_params>>
report == <<top_moves, evaluation, display_evaluation, shown, best_move>>
pure == <<rot, rot_n, corners, square, coords, move, drawn>>

\* return ..., None, False
ReturnFailure(f) ==
    /\ result' = Failure(f)
    /\ pc' = "done"

\* the skill level and depth init_stockfish gives the engine, sicily.py:205-212
ConfigFor(params) ==
    IF params # NoParams
    THEN [skill_level |-> params.skill_level, depth |-> params.depth]
    ELSE [skill_level |-> DefaultSkillLevel, depth |-> DefaultDepth]

\* init_stockfish returning a new session sid
InitStockfishOk(sid) ==
    /\ stockfish' = sid
    /\ config' = [config EXCEPT ![sid] = ConfigFor(stockfish_params)]
    /\ position' = [position EXCEPT ![sid] = StartPos]
    /\ calls' = Append(calls, Call("Stockfish", sid, <<>>, "ok"))

\* init_stockfish catching a failure of the construction and returning None
InitStockfishFails(sid) ==
    /\ stockfish' = 0
    /\ calls' = Append(calls, Call("Stockfish", sid, <<>>, "raise"))
    /\ UNCHANGED <<position, config>>

\* Construct going on with the run although the construction failed
Construct_IgnoresFailure ==
    /\ pc = "init"
    /\ \/ InitStockfishOk(1)
       \/ InitStockfishFails(1)
    /\ pc' = "load"
    /\ UNCHANGED <<locals, inputs, report, pure, result>>

\* stockfish = init_stockfish(stockfish_params); if stockfish is None: return
Construct ==
    /\ pc = "init"
    /\ \/ InitStockfishOk(1) /\ pc' = "load" /\ UNCHANGED result
       \/ InitStockfishFails(1) /\ ReturnFailure(NoneFen)
    /\ UNCHANGED <<locals, inputs, report, pure>>

\* image loading and chessboard detection; every failure returns None, None, False
LoadAndDetect ==
    /\ pc = "load"
    /\ \/ pc' = "analyse" /\ UNCHANGED result
       \/ ReturnFailure(NoneFen)
    /\ UNCHANGED <<engine, locals, inputs, report, pure>>

\* getPrediction returned None
AnalyseNone ==
    /\ pc = "analyse"
    /\ ReturnFailure(NoneFen)
    /\ UNCHANGED <<engine, locals, inputs, report, pure>>

\* AnalyseOk taking the color from the override but the orientation from detection
AnalyseOk_OverrideKeepsDetection ==
    /\ pc = "analyse"
    /\ fen' = PredictedFen
    /\ LET d == detect_board_orientation(input_fen) IN
         /\ orientation' = d[1]
         /\ active_player' = IF manual_side # "none" THEN manual_side ELSE d[2]
         /\ detect_calls' = detect_calls + 1
         /\ short_fen' = IF d[1] = "flipped" THEN flip_fen(input_fen) ELSE input_fen
    /\ full_fen' = FullRightsFen(short_fen', active_player')
    /\ pc' = "validate1"
    /\ UNCHANGED <<engine, inputs, report, pure, result>>

\* the board analysis without an exception: orientation by override or detection
AnalyseOk ==
    /\ pc = "analyse"
    /\ fen' = PredictedFen
    /\ IF manual_side # "none"
       THEN /\ active_player' = manual_side
            /\ IF manual_side = "b"
               THEN orientation' = "flipped" /\ short_fen' = flip_fen(input_fen)
               ELSE orientation' = "normal" /\ short_fen' = input_fen
            /\ UNCHANGED detect_calls
       ELSE LET d == detect_board_orientation(input_fen) IN
            /\ orientation' = d[1]
            /\ active_player' = d[2]
            /\ detect_calls' = detect_calls + 1
            /\ short_fen' = IF d[1] = "flipped" THEN flip_fen(input_fen) ELSE input_fen
    /\ full_fen' = FullRightsFen(short_fen', active_player')
    /\ pc' = "validate1"
    /\ UNCHANGED <<engine, inputs, report, pure, result>>

\* an exception in the board analysis: the sample position replaces the board.
\* late: the exception came after the orientation was computed (line 318).
AnalyseFallback ==
    /\ pc = "analyse"
    /\ \E late \in BOOLEAN :
         detect_calls' = detect_calls + 1
                         + (IF late /\ manual_side = "none" THEN 1 ELSE 0)
    /\ fen' = sample_fen
    /\ short_fen' = sample_fen
    /\ LET d == detect_board_orientation(sample_fen) IN
         /\ orientation' = d[1]
         /\ active_player' = d[2]
         /\ full_fen' = FullRightsFen(sample_fen, d[2])
    /\ pc' = "validate1"
    /\ UNCHANGED <<engine, inputs, report, pure, result>>

\* stockfish.is_fen_valid(f) with its outcome recorded
IsFenValid(f, out) ==
    /\ out \in {"true", "false", "raise"}
    /\ calls' = Append(calls, Call("is_fen_valid", stockfish, f, out))
    /\ UNCHANGED <<stockfish, position, config>>

\* if not stockfish.is_fen_valid(full_fen)
Validate1 ==
    /\ pc = "validate1"
    /\ \E out \in {"true", "false", "raise"} :
         /\ IsFenValid(full_fen, out)
         /\ CASE out = "true" -> pc' = "set" /\ UNCHANGED result
              [] out = "false" -> pc' = "validate2" /\ UNCHANGED result
              [] out = "raise" -> ReturnFailure(fen)
    /\ UNCHANGED <<locals, inputs, report, pure>>

\* if stockfish.is_fen_valid(simplified_fen): full_fen = simplified_fen
Validate2 ==
    /\ pc = "validate2"
    /\ LET simplified_fen == NoRightsFen(short_fen, active_player) IN
       \E out \in {"true", "false", "raise"} :
         /\ IsFenValid(simplified_fen, out)
         /\ CASE out = "true" ->
                   full_fen' = simplified_fen /\ pc' = "set" /\ UNCHANGED result
              [] out = "false" ->
                   pc' = "validate3" /\ UNCHANGED <<full_fen, result>>
              [] out = "raise" -> ReturnFailure(fen) /\ UNCHANGED full_fen
    /\ UNCHANGED <<fen, short_fen, orientation, active_player, detect_calls>>
    /\ UNCHANGED <<inputs, report, pure>>

\* Validate3 forgetting "active_player = opposite_player"
Validate3_KeepsColor ==
    /\ pc = "validate3"
    /\ LET opposite_player == Opposite(active_player)
           opposite_fen == NoRightsFen(short_fen, opposite_player)
       IN \E out \in {"true", "false", "raise"} :
         /\ IsFenValid(opposite_fen, out)
         /\ CASE out = "true" -> full_fen' = opposite_fen /\ pc' = "set" /\ UNCHANGED result
              [] out = "false" -> ReturnFailure(short_fen) /\ UNCHANGED full_fen
              [] out = "raise" -> ReturnFailure(fen) /\ UNCHANGED full_fen
    /\ UNCHANGED <<fen, short_fen, orientation, active_player, detect_calls>>
    /\ UNCHANGED <<inputs, report, pure>>

\* Validate3 returning the last candidate, suffix included, when all are rejected
Validate3_ReturnsCandidate ==
    /\ pc = "validate3"
    /\ LET opposite_player == Opposite(active_player)
           opposite_fen == NoRightsFen(short_fen, opposite_player)
       IN \E out \in {"true", "false", "raise"} :
         /\ IsFenValid(opposite_fen, out)
         /\ CASE out = "true" ->
                   /\ full_fen' = opposite_fen
                   /\ active_player' = opposite_player
                   /\ pc' = "set"
                   /\ UNCHANGED result
              [] out = "false" ->
                   ReturnFailure(opposite_fen) /\ UNCHANGED <<full_fen, active_player>>
              [] out = "raise" ->
                   ReturnFailure(fen) /\ UNCHANGED <<full_fen, active_player>>
    /\ UNCHANGED <<fen, short_fen, orientation, detect_calls>>
    /\ UNCHANGED <<inputs, report, pure>>

\* if stockfish.is_fen_valid(opposite_fen): full_fen, active_player = ...
Validate3 ==
    /\ pc = "validate3"
    /\ LET opposite_player == Opposite(active_player)
           opposite_fen == NoRightsFen(short_fen, opposite_player)
       IN \E out \in {"true", "false", "raise"} :
         /\ IsFenValid(opposite_fen, out)
         /\ CASE out = "true" ->
                   /\ full_fen' = opposite_fen
                   /\ active_player' = opposite_player
                   /\ pc' = "set"
                   /\ UNCHANGED result
              [] out = "false" ->
                   ReturnFailure(short_fen) /\ UNCHANGED <<full_fen, active_player>>
              [] out = "raise" ->
                   ReturnFailure(fen) /\ UNCHANGED <<full_fen, active_player>>
    /\ UNCHANGED <<fen, short_fen, orientation, detect_calls>>
    /\ UNCHANGED <<inputs, report, pure>>

\* stockfish.set_fen_position(f): the position is assigned when the call completes
SetFenPosition(f, out) ==
    /\ out \in {"ok", "raise"}
    /\ calls' = Append(calls, Call("set_fen_position", stockfish, f, out))
    /\ position' = IF out = "ok" THEN [position EXCEPT ![stockfish] = f] ELSE position
    /\ UNCHANGED <<stockfish, config>>

\* stockfish.set_fen_position(full_fen), sicily.py:363
SetPosition ==
    /\ pc = "set"
    /\ \E out \in {"ok", "raise"} :
         /\ SetFenPosition(full_fen, out)
         /\ IF out = "ok" THEN pc' = "probe" /\ UNCHANGED result
            ELSE ReturnFailure(fen)
    /\ UNCHANGED <<locals, inputs, report, pure>>

\* Probe treating a raising probe like a failed request: restart the engine
Probe_RestartsOnRaise ==
    /\ pc = "probe"
    /\ \E out \in {"true", "false", "raise"} :
         /\ IsFenValid(ProbeFen, out)
         /\ CASE out = "true" -> pc' = "top" /\ UNCHANGED result
              [] out = "false" -> ReturnFailure(fen)
              [] out = "raise" -> pc' = "restart" /\ UNCHANGED result
    /\ UNCHANGED <<locals, inputs, report, pure>>

\* the liveness probe, sicily.py:366-373
Probe ==
    /\ pc = "probe"
    /\ \E out \in {"true", "false", "raise"} :
         /\ IsFenValid(ProbeFen, out)
         /\ IF out = "true" THEN pc' = "top" /\ UNCHANGED result
            ELSE ReturnFailure(fen)
    /\ UNCHANGED <<locals, inputs, report, pure>>

\* lines 408-413 once top_moves is bound to list
GotTopMoves(list) ==
    /\ top_moves' = list
    /\ IF Len(list) = 0
       THEN ReturnFailure(fen) /\ UNCHANGED best_move
       ELSE best_move' = list[1].Move /\ pc' = "eval" /\ UNCHANGED result

\* top_moves = stockfish.get_top_moves(3), sicily.py:377
TopMoves ==
    /\ pc = "top"
    /\ \/ \E list \in TopMoveLists :
            /\ calls' = Append(calls, Call("get_top_moves", stockfish, <<>>, "ok"))
            /\ GotTopMoves(list)
       \/ /\ calls' = Append(calls, Call("get_top_moves", stockfish, <<>>, "raise"))
          /\ pc' = "restart"
          /\ UNCHANGED <<top_moves, best_move, result>>
    /\ UNCHANGED <<stockfish, position, config>>
    /\ UNCHANGED <<locals, inputs, pure, evaluation, display_evaluation, shown>>

\* Restart building the new session without the caller's parameters
Restart_DefaultConfig ==
    /\ pc = "restart"
    /\ \/ /\ stockfish' = 2
          /\ config' = [config EXCEPT ![2] = ConfigFor(NoParams)]
          /\ position' = [position EXCEPT ![2] = StartPos]
          /\ calls' = Append(calls, Call("Stockfish", 2, <<>>, "ok"))
          /\ pc' = "reset"
          /\ UNCHANGED result
       \/ InitStockfishFails(2) /\ ReturnFailure(fen)
    /\ UNCHANGED <<locals, inputs, report, pure>>

\* stockfish = init_stockfish(stockfish_params) after a failed request
Restart ==
    /\ pc = "restart"
    /\ \/ InitStockfishOk(2) /\ pc' = "reset" /\ UNCHANGED result
       \/ InitStockfishFails(2) /\ ReturnFailure(fen)
    /\ UNCHANGED <<locals, inputs, report, pure>>

\* Reset going on to the ranked request although the position was not set
Reset_IgnoresFailure ==
    /\ pc = "reset"
    /\ \E out \in {"ok", "raise"} :
         /\ SetFenPosition(full_fen, out)
         /\ pc' = "retop"
    /\ UNCHANGED <<locals, inputs, report, pure, result>>

\* stockfish.set_fen_position(full_fen) on the new session, sicily.py:390
Reset ==
    /\ pc = "reset"
    /\ \E out \in {"ok", "raise"} :
         /\ SetFenPosition(full_fen, out)
         /\ pc' = IF out = "ok" THEN "retop" ELSE "best"
    /\ UNCHANGED <<locals, inputs, report, pure, result>>

\* ReTopMoves giving up when the retried request raises
ReTopMoves_GivesUp ==
    /\ pc = "retop"
    /\ \/ \E list \in TopMoveLists :
            /\ calls' = Append(calls, Call("get_top_moves", stockfish, <<>>, "ok"))
            /\ GotTopMoves(list)
       \/ /\ calls' = Append(calls, Call("get_top_moves", stockfish, <<>>, "raise"))
          /\ ReturnFailure(fen)
          /\ UNCHANGED <<top_moves, best_move>>
    /\ UNCHANGED <<stockfish, position, config>>
    /\ UNCHANGED <<locals, inputs, pure, evaluation, display_evaluation, shown>>

\* top_moves = stockfish.get_top_moves(3) on the new session, sicily.py:391
ReTopMoves ==
    /\ pc = "retop"
    /\ \/ \E list \in TopMoveLists :
            /\ calls' = Append(calls, Call("get_top_moves", stockfish, <<>>, "ok"))
            /\ GotTopMoves(list)
       \/ /\ calls' = Append(calls, Call("get_top_moves", stockfish, <<>>, "raise"))
          /\ pc' = "best"
          /\ UNCHANGED <<top_moves, best_move, result>>
    /\ UNCHANGED <<stockfish, position, config>>
    /\ UNCHANGED <<locals, inputs, pure, evaluation, display_evaluation, shown>>

\* BestMove going back to the ranked request when the fallback gives no move
BestMove_RetriesRanked ==
    /\ pc = "best"
    /\ \/ \E m \in {Moves[1], Moves[2]} :
            /\ calls' = Append(calls, Call("get_best_move", stockfish, <<>>, "ok"))
            /\ best_move' = m
            /\ result' = Success(short_fen, m)
            /\ pc' = "done"
       \/ /\ calls' = Append(calls, Call("get_best_move", stockfish, <<>>, "None"))
          /\ best_move' = NoMove
          /\ pc' = "retop"
          /\ UNCHANGED result
       \/ /\ calls' = Append(calls, Call("get_best_move", stockfish, <<>>, "raise"))
          /\ pc' = "retop"
          /\ UNCHANGED <<best_move, result>>
    /\ UNCHANGED <<stockfish, position, config>>
    /\ UNCHANGED <<locals, inputs, pure, top_moves, evaluation, display_evaluation, shown>>

\* best_move = stockfish.get_best_move(), the final fallback, sicily.py:396-406
BestMove ==
    /\ pc = "best"
    /\ \/ \E m \in {Moves[1], Moves[2]} :
            /\ calls' = Append(calls, Call("get_best_move", stockfish, <<>>, "ok"))
            /\ best_move' = m
            /\ result' = Success(short_fen, m)
       \/ /\ calls' = Append(calls, Call("get_best_move", stockfish, <<>>, "None"))
          /\ best_move' = NoMove
          /\ result' = Failure(fen)
       \/ /\ calls' = Append(calls, Call("get_best_move", stockfish, <<>>, "raise"))
          /\ result' = Failure(fen)
          /\ UNCHANGED best_move
    /\ pc' = "done"
    /\ UNCHANGED <<stockfish, position, config>>
    /\ UNCHANGED <<locals, inputs, pure, top_moves, evaluation, display_evaluation, shown>>

\* DisplayEvaluation without the 'mate' branch
DisplayEvaluation_CpOnly(ev, player) ==
    IF player = "b" /\ ev.type = "cp" /\ ev.value.kind = "int"
    THEN [ev EXCEPT !.value = PyInt(-ev.value.n)]
    ELSE ev

\* the value printed for an evaluation, sicily.py:425-430
DisplayEvaluation(ev, player) ==
    IF player = "b" /\ ev.type \in {"cp", "mate"} /\ ev.value.kind = "int"
    THEN [ev EXCEPT !.value = PyInt(-ev.value.n)]
    ELSE ev

\* the centipawn printed for one entry of top_moves, sicily.py:437-439
DisplayCentipawn(move_data, player) ==
    IF player = "b" /\ move_data.Centipawn.kind = "int"
    THEN PyInt(-move_data.Centipawn.n)
    ELSE move_data.Centipawn

\* evaluation = stockfish.get_evaluation() and the report, sicily.py:415-442
Evaluate ==
    /\ pc = "eval"
    /\ \/ \E ev \in Evaluations :
            /\ calls' = Append(calls, Call("get_evaluation", stockfish, <<>>, "ok"))
            /\ evaluation' = ev
       \/ /\ calls' = Append(calls, Call("get_evaluation", stockfish, <<>>, "raise"))
          /\ evaluation' = UnknownEvaluation
    /\ display_evaluation' = DisplayEvaluation(evaluation', active_player)
    /\ shown' = [i \in 1..Len(top_moves) |-> DisplayCentipawn(top_moves[i], active_player)]
    /\ result' = Success(short_fen, best_move)
    /\ pc' = "done"
    /\ UNCHANGED <<stockfish, position, config>>
    /\ UNCHANGED <<locals, inputs, pure, top_moves, best_move>>

Next ==
    \/ Construct
    \/ LoadAndDetect
    \/ AnalyseNone
    \/ AnalyseOk
    \/ AnalyseFallback
    \/ Validate1
    \/ Validate2
    \/ Validate3
    \/ SetPosition
    \/ Probe
    \/ TopMoves
    \/ Restart
    \/ Reset
    \/ ReTopMoves
    \/ BestMove
    \/ Evaluate

Spec == Init /\ [][Next]_vars

\* every engine call returns or raises: a run that can take a step takes one
FairSpec == Spec /\ WF_vars(Next)

-----------------------------------------------------------------------------
(* Orientation inference and flip_fen on every enumerated placement *)

\* the state at sicily.py:272 of a run on any enumerated placement: the engine
\* is constructed and the board was found
InitOrient ==
    /\ pc = "analyse"
    /\ manual_side \in ManualSides
    /\ input_fen \in Placements \cup TiePlacements
    /\ stockfish_params = NoParams
    /\ fen = NoneFen
    /\ short_fen = NoneFen
    /\ orientation = "unset"
    /\ active_player = "unset"
    /\ full_fen = NoneFen
    /\ stockfish = 1
    /\ position = [s \in {1, 2} |-> IF s = 1 THEN StartPos ELSE NoneFen]
    /\ config = [s \in {1, 2} |-> IF s = 1 THEN ConfigFor(NoParams) ELSE NoConfig]
    /\ calls = << Call("Stockfish", 1, <<>>, "ok") >>
    /\ detect_calls = 0
    /\ top_moves = <<>>
    /\ evaluation = UnknownEvaluation
    /\ display_evaluation = UnknownEvaluation
    /\ shown = <<>>
    /\ best_move = NoMove
    /\ result = Failure(NoneFen)
    /\ rot = input_fen
    /\ rot_n = 0
    /\ GeometryIdle

\* one more application of flip_fen to the placement
Rotate ==
    /\ rot_n < MaxFlips
    /\ rot' = flip_fen(rot)
    /\ rot_n' = rot_n + 1
    /\ UNCHANGED <<pc, engine, locals, inputs, report, result>>
    /\ UNCHANGED <<corners, square, coords, move, drawn>>

NextOrient ==
    \/ AnalyseOk
    \/ Rotate

SpecOrient == InitOrient /\ [][NextOrient]_vars

-----------------------------------------------------------------------------
(* test.py: test_move_generation.  The returned tuple also carries corners *)
(* and img, which the model leaves out.                                    *)

\* Stockfish(path=...), reset_engine_parameters, set_skill_level(10), set_depth(6)
T_Construct ==
    /\ pc = "init"
    /\ \/ /\ stockfish' = 1
          /\ config' = [config EXCEPT
                          ![1] = [skill_level |-> DefaultSkillLevel, depth |-> DefaultDepth]]
          /\ position' = [position EXCEPT ![1] = StartPos]
          /\ calls' = Append(calls, Call("Stockfish", 1, <<>>, "ok"))
          /\ pc' = "load"
          /\ UNCHANGED result
       \/ /\ calls' = Append(calls, Call("Stockfish", 1, <<>>, "raise"))
          /\ UNCHANGED <<stockfish, position, config>>
          /\ ReturnFailure(NoneFen)
    /\ UNCHANGED <<locals, inputs, report, pure>>

T_LoadAndDetect ==
    /\ pc = "load"
    /\ \/ pc' = "analyse" /\ UNCHANGED result
       \/ ReturnFailure(NoneFen)
    /\ UNCHANGED <<engine, locals, inputs, report, pure>>

T_AnalyseNone ==
    /\ pc = "analyse"
    /\ ReturnFailure(NoneFen)
    /\ UNCHANGED <<engine, locals, inputs, report, pure>>

\* full_fen = f"{short_fen} w KQkq - 0 1"
T_AnalyseOk ==
    /\ pc = "analyse"
    /\ fen' = PredictedFen
    /\ short_fen' = input_fen
    /\ full_fen' = FullRightsFen(input_fen, "w")
    /\ pc' = "set"
    /\ UNCHANGED <<orientation, active_player, detect_calls>>
    /\ UNCHANGED <<engine, inputs, report, pure, result>>

T_AnalyseFallback ==
    /\ pc = "analyse"
    /\ fen' = sample_fen
    /\ full_fen' = FullRightsFen(sample_fen, "w")
    /\ short_fen' = sample_fen
    /\ pc' = "set"
    /\ UNCHANGED <<orientation, active_player, detect_calls>>
    /\ UNCHANGED <<engine, inputs, report, pure, result>>

\* stockfish.set_fen_position(full_fen), test.py:260
T_SetPosition ==
    /\ pc = "set"
    /\ \E out \in {"ok", "raise"} :
         /\ SetFenPosition(full_fen, out)
         /\ IF out = "ok" THEN pc' = "validate1" /\ UNCHANGED result
            ELSE ReturnFailure(fen)
    /\ UNCHANGED <<locals, inputs, report, pure>>

\* if not stockfish.is_fen_valid(full_fen), test.py:263
T_Validate1 ==
    /\ pc = "validate1"
    /\ \E out \in {"true", "false", "raise"} :
         /\ IsFenValid(full_fen, out)
         /\ CASE out = "true" -> pc' = "best" /\ UNCHANGED result
              [] out = "false" -> pc' = "validate2" /\ UNCHANGED result
              [] out = "raise" -> ReturnFailure(fen)
    /\ UNCHANGED <<locals, inputs, report, pure>>

\* simplified_fen = f"{short_fen} w - - 0 1", test.py:268-271
T_Validate2 ==
    /\ pc = "validate2"
    /\ LET simplified_fen == NoRightsFen(short_fen, "w") IN
       \E out \in {"true", "false", "raise"} :
         /\ IsFenValid(simplified_fen, out)
         /\ CASE out = "true" ->
                   full_fen' = simplified_fen /\ pc' = "best" /\ UNCHANGED result
              [] out = "false" ->
                   pc' = "validate3" /\ UNCHANGED <<full_fen, result>>
              [] out = "raise" -> ReturnFailure(fen) /\ UNCHANGED full_fen
    /\ UNCHANGED <<fen, short_fen, orientation, active_player, detect_calls>>
    /\ UNCHANGED <<inputs, report, pure>>

\* black_fen = f"{short_fen} b - - 0 1", test.py:274-280
T_Validate3 ==
    /\ pc = "validate3"
    /\ LET black_fen == NoRightsFen(short_fen, "b") IN
       \E out \in {"true", "false", "raise"} :
         /\ IsFenValid(black_fen, out)
         /\ CASE out = "true" ->
                   full_fen' = black_fen /\ pc' = "best" /\ UNCHANGED result
              [] out = "false" -> ReturnFailure(short_fen) /\ UNCHANGED full_fen
              [] out = "raise" -> ReturnFailure(fen) /\ UNCHANGED full_fen
    /\ UNCHANGED <<fen, short_fen, orientation, active_player, detect_calls>>
    /\ UNCHANGED <<inputs, report, pure>>

\* best_move = stockfish.get_best_move(), test.py:282-286
T_BestMove ==
    /\ pc = "best"
    /\ \/ \E m \in {Moves[1], Moves[2]} :
            /\ calls' = Append(calls, Call("get_best_move", stockfish, <<>>, "ok"))
            /\ best_move' = m
            /\ pc' = "eval"
            /\ UNCHANGED result
       \/ /\ calls' = Append(calls, Call("get_best_move", stockfish, <<>>, "None"))
          /\ best_move' = NoMove
          /\ ReturnFailure(fen)
       \/ /\ calls' = Append(calls, Call("get_best_move", stockfish, <<>>, "raise"))
          /\ ReturnFailure(fen)
          /\ UNCHANGED best_move
    /\ UNCHANGED <<stockfish, position, config>>
    /\ UNCHANGED <<locals, inputs, pure, top_moves, evaluation, display_evaluation, shown>>

\* evaluation = stockfish.get_evaluation(), test.py:289-292
T_Evaluate ==
    /\ pc = "eval"
    /\ \/ \E ev \in Evaluations :
            /\ calls' = Append(calls, Call("get_evaluation", stockfish, <<>>, "ok"))
            /\ evaluation' = ev
            /\ display_evaluation' = ev
            /\ pc' = "top"
            /\ UNCHANGED result
       \/ /\ calls' = Append(calls, Call("get_evaluation", stockfish, <<>>, "raise"))
          /\ ReturnFailure(fen)
          /\ UNCHANGED <<evaluation, display_evaluation>>
    /\ UNCHANGED <<stockfish, position, config>>
    /\ UNCHANGED <<locals, inputs, pure, top_moves, best_move, shown>>

\* top_moves = stockfish.get_top_moves(3) and the listing, test.py:295-300
T_TopMoves ==
    /\ pc = "top"
    /\ \/ \E list \in TopMoveLists :
            /\ calls' = Append(calls, Call("get_top_moves", stockfish, <<>>, "ok"))
            /\ top_moves' = list
            /\ shown' = [i \in 1..Len(list) |-> list[i].Centipawn]
            /\ result' = Success(short_fen, best_move)
            /\ pc' = "done"
       \/ /\ calls' = Append(calls, Call("get_top_moves", stockfish, <<>>, "raise"))
          /\ ReturnFailure(fen)
          /\ UNCHANGED <<top_moves, shown>>
    /\ UNCHANGED <<stockfish, position, config>>
    /\ UNCHANGED <<locals, inputs, pure, evaluation, display_evaluation, best_move>>

InitTest ==
    /\ pc = "init"
    /\ manual_side = "none"
    /\ input_fen \in PipelinePlacements
    /\ stockfish_params = NoParams
    /\ InitLocals

NextTest ==
    \/ T_Construct
    \/ T_LoadAndDetect
    \/ T_AnalyseNone
    \/ T_AnalyseOk
    \/ T_AnalyseFallback
    \/ T_SetPosition
    \/ T_Validate1
    \/ T_Validate2
    \/ T_Validate3
    \/ T_BestMove
    \/ T_Evaluate
    \/ T_TopMoves

SpecTest == InitTest /\ [][NextTest]_vars

-----------------------------------------------------------------------------
(* Reading the call log *)

CallsOf(op) == { i \in 1..Len(calls) : calls[i].op = op }

\* the validations of the repair cascade: those issued before any position is set
CascadeCalls ==
    { i \in CallsOf("is_fen_valid") : \A j \in 1..i : calls[j].op # "set_fen_position" }

\* the liveness probes: the validations that follow a position assignment
ProbeCalls == CallsOf("is_fen_valid") \ CascadeCalls

\* the color handed to the cascade; the cascade never changes orientation
SuppliedColor == IF orientation = "flipped" THEN "b" ELSE "w"

\* the three candidates written out literally
Candidate(k) ==
    CASE k = 1 -> short_fen \o <<" ", SuppliedColor, " ", "K", "Q", "k", "q",
                                 " ", "-", " ", "0", " ", "1">>
      [] k = 2 -> short_fen \o <<" ", SuppliedColor, " ", "-", " ", "-", " ", "0", " ", "1">>
      [] k = 3 -> short_fen \o <<" ", IF SuppliedColor = "w" THEN "b" ELSE "w",
                                 " ", "-", " ", "-", " ", "0", " ", "1">>

-----------------------------------------------------------------------------
(* C1: a position is set on the engine only after the validator accepted    *)
(* that very position string earlier in the run.  True of sicily.py         *)
(* (checked under Spec as C1_SicilyValidatesFirst); test.py sets the        *)
(* position before its first validation, so the statement fails there.      *)

C1_ValidatedBeforeSet ==
    \A j \in CallsOf("set_fen_position") :
        \E i \in 1..(j - 1) :
            /\ calls[i].op = "is_fen_valid"
            /\ calls[i].arg = calls[j].arg
            /\ calls[i].out = "true"

C1_SicilyValidatesFirst == C1_ValidatedBeforeSet /\ (pc = "probe" => full_fen = position[1])

-----------------------------------------------------------------------------
(* C2: the cascade validates candidate 1, 2, 3 in that order, stops at the  *)
(* first accepted one, uses exactly that candidate afterwards, and the      *)
(* final active color is the supplied one for candidates 1 and 2 and the    *)
(* opposite one exactly for candidate 3.                                    *)

C2_CascadeOrder ==
    LET n == Cardinality(CascadeCalls) IN
    /\ n <= 3
    /\ CascadeCalls = 2..(n + 1)
    /\ \A k \in 1..n : calls[k + 1].arg = Candidate(k)
    /\ \A k \in 1..(n - 1) : calls[k + 1].out = "false"
    /\ CallsOf("set_fen_position") # {} =>
         /\ n >= 1
         /\ calls[n + 1].out = "true"
         /\ \A j \in CallsOf("set_fen_position") : calls[j].arg = Candidate(n)
         /\ full_fen = Candidate(n)
         /\ active_player = SuppliedColor <=> n \in {1, 2}
         /\ active_player # SuppliedColor <=> n = 3
         /\ active_player \in {"w", "b"}

\* the third candidate was accepted and set for a board read as White's
C2_Witness ==
    /\ Cardinality(CascadeCalls) = 3
    /\ CallsOf("set_fen_position") # {}
    /\ SuppliedColor = "w"
    /\ active_player = "b"

-----------------------------------------------------------------------------
(* C3: when the validator rejects all three candidates the run has made     *)
(* exactly three validations, returns the corrected placement without a     *)
(* game-state suffix and without a move, and issues no other engine call.   *)

AllRejected ==
    /\ Cardinality(CascadeCalls) = 3
    /\ \A i \in CascadeCalls : calls[i].out = "false"

C3_AllRejected ==
    AllRejected =>
        /\ pc = "done"
        /\ Cardinality(CallsOf("is_fen_valid")) = 3
        /\ result = [fen |-> short_fen, best_move |-> NoMove, success |-> FALSE]
        /\ \A i \in 1..Len(result.fen) : result.fen[i] # " "
        /\ result.fen = (IF orientation = "flipped"
                         THEN [i \in 1..Len(input_fen) |-> input_fen[Len(input_fen) + 1 - i]]
                         ELSE IF fen = sample_fen THEN sample_fen ELSE input_fen)
        /\ Len(calls) = 4
        /\ \A i \in 2..Len(calls) : calls[i].op = "is_fen_valid"

C3_Witness == AllRejected /\ orientation = "flipped"

-----------------------------------------------------------------------------
(* C4: as claimed, a run on a session whose every call raises makes one     *)
(* restart and one best-move fallback.  In the code such a run ends at its  *)
(* first call, the first validation.                                        *)

Restarts == CallsOf("Stockfish") \ {1}

EveryCallRaises ==
    /\ pc = "done"
    /\ Len(calls) >= 2
    /\ calls[1].out = "ok"
    /\ \A i \in 2..Len(calls) : calls[i].out = "raise"

C4_Original ==
    EveryCallRaises =>
        /\ Cardinality(Restarts) = 1
        /\ Cardinality(CallsOf("get_best_move")) = 1

(* C4 amended: when validation, position assignment and probe succeed and   *)
(* every later request raises (the restart's construction succeeding), the  *)
(* calls after the probe are always get_top_moves, construction,            *)
(* set_fen_position, get_best_move: one restart, one fallback, failure.  A  *)
(* session whose every call raises ends in failure after its first call.    *)

\* the probe at index p succeeded and every request after it raised
QueryFailsAfter(p) ==
    /\ p \in ProbeCalls
    /\ calls[p].out = "true"
    /\ \A i \in (p + 1)..Len(calls) :
         calls[i].out = (IF calls[i].op = "Stockfish" THEN "ok" ELSE "raise")

C4_FailingQuery ==
    /\ \A p \in 1..Len(calls) :
         (pc = "done" /\ QueryFailsAfter(p)) =>
            /\ Len(calls) = p + 4
            /\ [i \in 1..4 |-> calls[p + i].op]
                 = <<"get_top_moves", "Stockfish", "set_fen_position", "get_best_move">>
            /\ Cardinality(Restarts) = 1
            /\ Cardinality(CallsOf("get_best_move")) = 1
            /\ Cardinality(CallsOf("get_top_moves")) = 1
            /\ result = Failure(fen)
    /\ EveryCallRaises =>
            /\ Len(calls) = 2
            /\ calls[2].op = "is_fen_valid"
            /\ result = Failure(fen)

C4_Witness ==
    /\ pc = "done"
    /\ \E p \in 1..Len(calls) : QueryFailsAfter(p)

-----------------------------------------------------------------------------
(* C5: a run constructs the engine at most twice (one restart), requests    *)
(* the top moves at most twice and the best move at most once, and always   *)
(* ends, with a move or with a failure.                                     *)

C5_Caps ==
    /\ Cardinality(Restarts) <= 1
    /\ Cardinality(CallsOf("Stockfish")) <= 2
    /\ Cardinality(CallsOf("get_top_moves")) <= 2
    /\ Cardinality(CallsOf("get_best_move")) <= 1
    /\ pc = "done" =>
         \/ result.success /\ result.best_move # NoMove
         \/ ~result.success /\ result.best_move = NoMove

C5_BoundedQuery == []C5_Caps /\ <>(pc = "done")

C5_Witness ==
    /\ pc = "done"
    /\ Cardinality(Restarts) = 1
    /\ Cardinality(CallsOf("get_top_moves")) = 2
    /\ Cardinality(CallsOf("get_best_move")) = 1
    /\ result.success

-----------------------------------------------------------------------------
(* C6: the only validation after the position is set is the probe of the    *)
(* canonical starting position, it directly follows the completed           *)
(* set_fen_position and precedes every top-moves request; a probe that      *)
(* returns false or raises ends the run in failure with no further call.    *)

C6_ProbeGate ==
    /\ Cardinality(ProbeCalls) <= 1
    /\ \A p \in ProbeCalls :
         /\ calls[p].arg = ProbeFen
         /\ calls[p - 1].op = "set_fen_position"
         /\ calls[p - 1].out = "ok"
         /\ calls[p].out # "true" =>
              /\ pc = "done"
              /\ p = Len(calls)
              /\ result = Failure(fen)
              /\ CallsOf("get_top_moves") = {}
              /\ CallsOf("get_best_move") = {}
              /\ Restarts = {}
    /\ \A j \in CallsOf("get_top_moves") :
         \E p \in ProbeCalls : p < j /\ calls[p].out = "true"
    /\ pc = "top" => \E p \in ProbeCalls : p = Len(calls) /\ calls[p].out = "true"

C6_Witness ==
    /\ \E p \in ProbeCalls : calls[p].out = "raise"
    /\ pc = "done"

-----------------------------------------------------------------------------
(* Reading a placement without the model's split *)

\* the characters after the last '/'
LastRankOf(s) ==
    LET n == Len(s)
        start == CHOOSE i \in 1..(n + 1) :
                    /\ \A j \in i..n : s[j] # "/"
                    /\ i = 1 \/ s[i - 1] = "/"
    IN  SubSeq(s, start, n)

Uppers(s) == Cardinality({ i \in 1..Len(s) : s[i] \in UpperLetters })
Lowers(s) == Cardinality({ i \in 1..Len(s) : s[i] \in LowerLetters })

\* the board turned by 180 degrees: the whole string read backwards
Rotated180(s) == [i \in 1..Len(s) |-> s[Len(s) + 1 - i]]

\* the board analysis has just produced its result
Analysed == pc = "validate1"

-----------------------------------------------------------------------------
(* C7: without an override, more upper-case than lower-case letters in the  *)
(* last rank-string give (normal, w) and the placement unchanged; more      *)
(* lower-case letters give (flipped, b) and the placement rotated by 180    *)
(* degrees.                                                                 *)

C7_Inference ==
    (Analysed /\ manual_side = "none") =>
        LET last == LastRankOf(input_fen) IN
        /\ Uppers(last) > Lowers(last) =>
             /\ orientation = "normal"
             /\ active_player = "w"
             /\ short_fen = input_fen
        /\ Lowers(last) > Uppers(last) =>
             /\ orientation = "flipped"
             /\ active_player = "b"
             /\ short_fen = Rotated180(input_fen)

\* black on the last rank, white on the first: the board is turned
C7_Witness ==
    /\ Analysed
    /\ manual_side = "none"
    /\ Lowers(LastRankOf(input_fen)) > Uppers(LastRankOf(input_fen))
    /\ Uppers(input_fen) > Lowers(input_fen)
    /\ short_fen # input_fen

-----------------------------------------------------------------------------
(* C8: with an override the active color is the override whatever the       *)
(* placement holds; "b" gives flipped and the rotated placement, "w" gives  *)
(* normal and the placement unchanged; detect_board_orientation is not      *)
(* called.                                                                  *)

-----------------------------------------------------------------------------
(* C9: flip_fen applied twice to a placement gives the placement back.      *)

C9_RoundTrip == rot_n = 2 => rot = input_fen

\* a placement that one flip changes
C9_Witness ==
    /\ rot_n = 2
    /\ rot = input_fen
    /\ Rotated180(input_fen) # input_fen
    /\ Cardinality({ i \in 1..Len(input_fen) : input_fen[i] = "/" }) = 7

-----------------------------------------------------------------------------
(* C10: as claimed, for Black the score printed for every entry of the      *)
(* ranked list is the negation of the entry's numeric score, centipawn or   *)
(* mate distance.  The code prints only move_data['Centipawn'].            *)

Reported == pc = "done" /\ Len(calls) > 0 /\ calls[Len(calls)].op = "get_evaluation"

NumericEvaluation(ev) == ev.type \in {"cp", "mate"} /\ ev.value.kind = "int"

EvaluationNormalised ==
    /\ (active_player = "b" /\ NumericEvaluation(evaluation)) =>
         /\ display_evaluation.type = evaluation.type
         /\ display_evaluation.value = PyInt(0 - evaluation.value.n)
    /\ (active_player = "w" \/ ~NumericEvaluation(evaluation)) =>
         display_evaluation = evaluation

C10_Original ==
    Reported =>
        /\ EvaluationNormalised
        /\ Len(shown) = Len(top_moves)
        /\ \A i \in 1..Len(top_moves) :
             LET e == top_moves[i]
                 score == IF e.Centipawn.kind = "int" THEN e.Centipawn ELSE e.Mate
             IN  /\ (active_player = "b" /\ score.kind = "int") =>
                       shown[i] = PyInt(0 - score.n)
                 /\ (active_player = "w" /\ score.kind = "int") => shown[i] = score

(* C10 amended: for Black the single evaluation is negated for both the cp  *)
(* and the mate type and the centipawn of every entry of the ranked list is *)
(* negated; an entry's mate distance is neither printed nor negated; for    *)
(* White everything passes through; unknown or None values are not negated. *)

C10_Normalised ==
    Reported =>
        /\ active_player \in {"w", "b"}
        /\ EvaluationNormalised
        /\ Len(shown) = Len(top_moves)
        /\ \A i \in 1..Len(top_moves) :
             LET e == top_moves[i] IN
             /\ (active_player = "b" /\ e.Centipawn.kind = "int") =>
                   shown[i] = PyInt(0 - e.Centipawn.n)
             /\ (active_player = "w" \/ e.Centipawn.kind # "int") =>
                   shown[i] = e.Centipawn

\* Black, a mate evaluation, a centipawn entry and a mate entry
C10_Witness ==
    /\ Reported
    /\ active_player = "b"
    /\ evaluation.type = "mate"
    /\ evaluation.value.kind = "int"
    /\ evaluation.value.n # 0
    /\ \E i \in 1..Len(top_moves) : top_moves[i].Centipawn.kind = "int"
    /\ \E i \in 1..Len(top_moves) : top_moves[i].Mate.kind = "int" /\ shown[i] = PyNone

-----------------------------------------------------------------------------
(* test.py: square_to_coordinates and draw_move_on_image *)

\* longest enumerated argument square
MaxSquareLen == 3
\* longest enumerated argument move
MaxMoveLen == 5

\* characters of the enumerated squares: files a, e, h, the letters i and x
\* outside the files, ranks 1, 4, 8 and the digits 0 and 9 outside the ranks
SquareChars == {"a", "e", "h", "i", "x", "0", "1", "4", "8", "9"}
MoveChars == {"a", "e", "i", "4", "9", "x"}

\* ord(c)
Ord(c) ==
    CASE c = "a" -> 97 [] c = "e" -> 101 [] c = "h" -> 104 [] c = "i" -> 105
      [] c = "x" -> 120 [] c = "0" -> 48 [] c = "1" -> 49 [] c = "4" -> 52
      [] c = "8" -> 56 [] c = "9" -> 57

\* the characters int() converts
DigitChars == {"0", "1", "4", "8", "9"}

\* the strings over chars of at most n characters
RECURSIVE StringsUpTo(_, _)
StringsUpTo(chars, n) ==
    IF n = 0 THEN { <<>> }
    ELSE LET shorter == StringsUpTo(chars, n - 1) IN
         shorter \cup { <<c>> \o t : c \in chars, t \in { u \in shorter : Len(u) = n - 1 } }

Squares == StringsUpTo(SquareChars, MaxSquareLen)
MoveStrings == StringsUpTo(MoveChars, MaxMoveLen)

\* boards: 100-pixel squares; 40 by 30; 12.5 by 9; one lying across the origin
CornerSet ==
    { <<0, 0, 800, 800>>, <<10, 20, 330, 260>>, <<3, 5, 103, 77>>, <<-50, -30, 50, 70>> }

\* int(n / d) of a float: the quotient truncated towards zero, d > 0
TruncDiv(n, d) == IF n >= 0 THEN n \div d ELSE 0 - ((0 - n) \div d)

\* square_to_coordinates forgetting to flip the y axis
square_to_coordinates_NoFlip(sq, c) ==
    IF Len(sq) # 2 THEN NoneCoords
    ELSE IF sq[2] \notin DigitChars THEN RaisedCoords
    ELSE LET file == Ord(sq[1]) - Ord("a")
             rank == (Ord(sq[2]) - Ord("0")) - 1
             board_width == c[3] - c[1]
             board_height == c[4] - c[2]
         IN  Coords(TruncDiv(16 * c[1] + (2 * file + 1) * board_width, 16),
                    TruncDiv(16 * c[2] + (2 * rank + 1) * board_height, 16))

\* square_to_coordinates.  With integer corners every float below is a multiple
\* of 1/16 and exact, so x and y are computed in sixteenths.
square_to_coordinates(sq, c) ==
    IF Len(sq) # 2 THEN NoneCoords
    ELSE IF sq[2] \notin DigitChars THEN RaisedCoords
    ELSE LET file == Ord(sq[1]) - Ord("a")
             rank == (Ord(sq[2]) - Ord("0")) - 1
             board_width == c[3] - c[1]
             board_height == c[4] - c[2]
         IN  Coords(TruncDiv(16 * c[1] + (2 * file + 1) * board_width, 16),
                    TruncDiv(16 * c[4] - (2 * rank + 1) * board_height, 16))

\* a call of square_to_coordinates
SquareToCoordinates ==
    /\ coords = NoCoords
    /\ drawn = "unset"
    /\ \E sq \in Squares :
         /\ square' = sq
         /\ coords' = square_to_coordinates(sq, corners)
    /\ UNCHANGED <<pc, engine, locals, inputs, report, result>>
    /\ UNCHANGED <<rot, rot_n, corners, move, drawn>>

\* a call of draw_move_on_image: square and coords are those of its last call
\* of square_to_coordinates
DrawMove ==
    /\ coords = NoCoords
    /\ drawn = "unset"
    /\ \E m \in MoveStrings :
         /\ move' = m
         /\ IF Len(m) < 4
            THEN drawn' = "None" /\ UNCHANGED <<square, coords>>
            ELSE LET from_square == SubSeq(m, 1, 2)
                     to_square == SubSeq(m, 3, 4)
                     from_coords == square_to_coordinates(from_square, corners)
                     to_coords == square_to_coordinates(to_square, corners)
                 IN  IF from_coords = RaisedCoords
                     THEN drawn' = "raise" /\ square' = from_square /\ coords' = from_coords
                     ELSE /\ square' = to_square
                          /\ coords' = to_coords
                          /\ drawn' = IF to_coords = RaisedCoords THEN "raise"
                                      ELSE IF from_coords = NoneCoords \/ to_coords = NoneCoords
                                           THEN "None"
                                           ELSE "output_path"
    /\ UNCHANGED <<pc, engine, locals, inputs, report, result>>
    /\ UNCHANGED <<rot, rot_n, corners>>

\* before the annotation of a board found at any of the enumerated corners
InitGeo ==
    /\ pc = "init"
    /\ manual_side = "none"
    /\ input_fen = sample_fen
    /\ stockfish_params = NoParams
    /\ InitPipelineLocals
    /\ corners \in CornerSet
    /\ square = <<>>
    /\ coords = NoCoords
    /\ move = <<>>
    /\ drawn = "unset"

NextGeo ==
    \/ SquareToCoordinates
    \/ DrawMove

SpecGeo == InitGeo /\ [][NextGeo]_vars

-----------------------------------------------------------------------------
(* C11: for a file a..h and a rank 1..8 square_to_coordinates returns the   *)
(* centre of the square, x = x0 + (f+0.5)*(x1-x0)/8 and                     *)
(* y = y1 - (r+0.5)*(y1-y0)/8 truncated to integers; e4 on the board        *)
(* (0, 0, 800, 800) is (450, 450).                                          *)

FileIndex(c) == CASE c = "a" -> 0 [] c = "e" -> 4 [] c = "h" -> 7
RankIndex(c) == CASE c = "1" -> 0 [] c = "4" -> 3 [] c = "8" -> 7

ValidSquare(sq) ==
    /\ Len(sq) = 2
    /\ sq[1] \in {"a", "e", "h"}
    /\ sq[2] \in {"1", "4", "8"}

\* v is n16 / 16 truncated towards zero
IsTruncated16(v, n16) ==
    IF n16 >= 0 THEN 16 * v <= n16 /\ n16 < 16 * v + 16
    ELSE 16 * v >= n16 /\ n16 > 16 * v - 16

C11_SquareCentre ==
    (coords # NoCoords /\ ValidSquare(square)) =>
        LET f == FileIndex(square[1])
            r == RankIndex(square[2])
        IN  /\ coords.kind = "tuple"
            /\ IsTruncated16(coords.x, 16 * corners[1] + (2 * f + 1) * (corners[3] - corners[1]))
            /\ IsTruncated16(coords.y, 16 * corners[4] - (2 * r + 1) * (corners[4] - corners[2]))
            /\ (square = <<"e", "4">> /\ corners = <<0, 0, 800, 800>>) =>
                   coords.x = 450 /\ coords.y = 450

C11_Witness ==
    /\ square = <<"e", "4">>
    /\ corners = <<0, 0, 800, 800>>
    /\ coords = [kind |-> "tuple", x |-> 450, y |-> 450]
    /\ drawn = "unset"

-----------------------------------------------------------------------------
(* C12: every invalid square (wrong length, file outside a..h, rank outside *)
(* 1..8 or not a digit) gives None and never raises, and draw_move_on_image *)
(* then returns None.  The code checks the length only.                     *)

InvalidSquare(sq) ==
    \/ Len(sq) # 2
    \/ sq[1] \notin {"a", "e", "h"}
    \/ sq[2] \notin {"1", "4", "8"}

C12_InvalidGivesNone ==
    /\ (coords # NoCoords /\ InvalidSquare(square)) => coords = NoneCoords
    /\ (drawn # "unset" /\ Len(move) >= 4
          /\ (InvalidSquare(SubSeq(move, 1, 2)) \/ InvalidSquare(SubSeq(move, 3, 4)))) =>
         drawn = "None"

-----------------------------------------------------------------------------
(* C13: when the first top-moves request raises, the run performs, in this  *)
(* order and once each, a restart (a new session with the skill level and   *)
(* depth of the original), a re-set of the same accepted position on the    *)
(* new session and a second top-moves request, each as soon as the step     *)
(* before it completed; a second request returning a non-empty list ends    *)
(* the query in success with the first move of that list.                   *)

\* the index in the log of the first top-moves request
FirstTopMoves == CHOOSE i \in CallsOf("get_top_moves") : \A k \in CallsOf("get_top_moves") : i <= k

FirstTopMovesRaised ==
    /\ CallsOf("get_top_moves") # {}
    /\ calls[FirstTopMoves].out = "raise"

\* the position the run set on the original session
FirstSet == CHOOSE i \in CallsOf("set_fen_position") : \A k \in CallsOf("set_fen_position") : i <= k

C13_RestartLadder ==
    FirstTopMovesRaised =>
        LET j == FirstTopMoves
            n == Len(calls)
        IN  /\ calls[j].on = 1
            /\ n = j => pc = "restart"
            /\ n > j =>
                 /\ calls[j + 1].op = "Stockfish"
                 /\ calls[j + 1].on = 2
                 /\ calls[j + 1].out = "ok" =>
                      /\ config[2] = config[1]
                      /\ config[2] # NoConfig
            /\ (n = j + 1 /\ calls[j + 1].out = "ok") => pc = "reset"
            /\ n > j + 1 =>
                 /\ calls[j + 1].out = "ok"
                 /\ calls[j + 2].op = "set_fen_position"
                 /\ calls[j + 2].on = 2
                 /\ calls[j + 2].arg = full_fen
                 /\ calls[j + 2].arg = calls[FirstSet].arg
                 /\ calls[FirstSet].on = 1
            /\ (n = j + 2 /\ calls[j + 2].out = "ok") => pc = "retop"
            /\ (n > j + 2 /\ calls[j + 2].out = "ok") =>
                 /\ calls[j + 3].op = "get_top_moves"
                 /\ calls[j + 3].on = 2
                 /\ (calls[j + 3].out = "ok" /\ top_moves # <<>>) =>
                      /\ best_move = top_moves[1].Move
                      /\ pc \in {"eval", "done"}
                      /\ pc = "done" => result = Success(short_fen, top_moves[1].Move)
            /\ Cardinality(Restarts) <= 1
            /\ Cardinality({ i \in CallsOf("set_fen_position") : calls[i].on = 2 }) <= 1
            /\ Cardinality(CallsOf("get_top_moves")) <= 2

C13_Witness ==
    /\ FirstTopMovesRaised
    /\ stockfish_params = SomeParams
    /\ Len(calls) = FirstTopMoves + 4
    /\ calls[FirstTopMoves + 3].op = "get_top_moves"
    /\ calls[FirstTopMoves + 3].out = "ok"
    /\ Len(top_moves) = 2
    /\ pc = "done"
    /\ result = Success(short_fen, Moves[1])

-----------------------------------------------------------------------------
(* C14: when the retried ranked request on the new session raises, the run  *)
(* issues exactly one best-move-only request; a move ends the query in      *)
(* success with that move alone (no ranked list, no evaluation requested);  *)
(* no move or a raise ends it in failure; no engine call follows.           *)

\* the retried ranked request raised
RetryRaised ==
    \E i \in CallsOf("get_top_moves") : calls[i].on = 2 /\ calls[i].out = "raise"

RetryIndex == CHOOSE i \in CallsOf("get_top_moves") : calls[i].on = 2

C14_BestMoveFallback ==
    RetryRaised =>
        LET j == RetryIndex
            n == Len(calls)
        IN  /\ n = j => pc = "best"
            /\ n > j =>
                 /\ n = j + 1
                 /\ calls[n].op = "get_best_move"
                 /\ calls[n].on = 2
                 /\ pc = "done"
                 /\ CallsOf("get_evaluation") = {}
                 /\ top_moves = <<>>
                 /\ shown = <<>>
                 /\ calls[n].out = "ok" =>
                      /\ best_move \in {Moves[1], Moves[2]}
                      /\ result = Success(short_fen, best_move)
                 /\ calls[n].out # "ok" =>
                      /\ calls[n].out \in {"None", "raise"}
                      /\ result = Failure(fen)
            /\ Cardinality(CallsOf("get_best_move")) <= 1

C14_Witness ==
    /\ RetryRaised
    /\ Len(calls) = RetryIndex + 1
    /\ calls[Len(calls)].op = "get_best_move"
    /\ calls[Len(calls)].out = "ok"
    /\ result = Success(short_fen, Moves[2])
    /\ pc = "done"

-----------------------------------------------------------------------------
(* C15: a failed engine construction, the initial one or the restart's,     *)
(* ends the run in failure with no move, and no engine call follows it.     *)

C15_ConstructionFailure ==
    \A i \in CallsOf("Stockfish") :
        calls[i].out = "raise" =>
            /\ i = Len(calls)
            /\ pc = "done"
            /\ ~result.success
            /\ result.best_move = NoMove

C15_Witness ==
    /\ pc = "done"
    /\ Len(calls) > 1
    /\ calls[Len(calls)] = Call("Stockfish", 2, <<>>, "raise")
    /\ result = Failure(fen)

\* the initial construction failed
C15_InitialFailure ==
    /\ pc = "done"
    /\ calls = << Call("Stockfish", 1, <<>>, "raise") >>
    /\ result = Failure(NoneFen)

-----------------------------------------------------------------------------
(* C16: without an override, a last rank-string with as many upper-case as  *)
(* lower-case letters (zero of each included) gives (flipped, b) when it    *)
(* holds 'r', 'k' or 'q' and (normal, w) otherwise; no other rank-string    *)
(* has a say.                                                               *)

HasBlackMajor(s) == \E i \in 1..Len(s) : s[i] \in {"r", "k", "q"}

C16_TieBreak ==
    (Analysed /\ manual_side = "none"
       /\ Uppers(LastRankOf(input_fen)) = Lowers(LastRankOf(input_fen))) =>
        IF HasBlackMajor(LastRankOf(input_fen))
        THEN orientation = "flipped" /\ active_player = "b"
        ELSE orientation = "normal" /\ active_player = "w"

\* a tie decided by a queen alone, under a first rank of black pieces
C16_Witness ==
    /\ Analysed
    /\ manual_side = "none"
    /\ LastRankOf(input_fen) = <<"R", "q">>
    /\ Lowers(SubSeq(input_fen, 1, 2)) = 2
    /\ orientation = "flipped"
    /\ active_player = "b"

\* an empty last rank under a first rank of black pieces
C16_EmptyLastRank ==
    /\ Analysed
    /\ manual_side = "none"
    /\ LastRankOf(input_fen) = <<"8">>
    /\ Lowers(SubSeq(input_fen, 1, 2)) = 2
    /\ orientation = "normal"
    /\ active_player = "w"

-----------------------------------------------------------------------------
(* C17: a run that reports success with a move took the move from a session *)
(* whose last completed position assignment was the accepted position.      *)
(* sicily.py asks the restarted session for its best move after the re-set  *)
(* raised.                                                                  *)

C17_MoveFromAcceptedPosition ==
    (pc = "done" /\ result.success) => position[stockfish] = full_fen

\* success after a re-set that did not complete
C17_MoveFromUnsetSession ==
    /\ pc = "done"
    /\ result.success
    /\ \E i \in CallsOf("set_fen_position") : calls[i].on = 2 /\ calls[i].out = "raise"
    /\ position[stockfish] = StartPos

====
